---- MODULE Spec2Model ----
(***************************************************************************)
(* Model of the two caching engines of the repository:                     *)
(*   src/task_1.py  LRUCache (OrderedDict) and the range-sum services      *)
(*   src/task_2.py  SplayTree (heap of SplayNode objects) and the          *)
(*                  memoized Fibonacci functions                           *)
(***************************************************************************)
EXTENDS Integers, Sequences, FiniteSets, TLC

\* ------------------------------------------------------------------ bounds
ArrayLen == 2          \* length N of the backing array
MaxValue == 1          \* array elements range over 0..MaxValue
MaxCapacity == 2       \* largest capacity handed to LRUCache(capacity)
MaxKey == 2            \* keys handed to the cache directly are (0, 0) .. (0, MaxKey)
MaxTreeKey == 3        \* SplayTree.insert is handed the keys 2, 4, .., 2 * MaxTreeKey
MaxFib == 8            \* arguments handed to fibonacci_splay are 0..MaxFib

\* ------------------------------------------------------------ value spaces
\* Python's None as a returned value; a present value v is <<v>>.
None == <<>>
Some(v) == <<v>>

\* LRUCache.__init__ stores whatever capacity it is given, unchecked.
CapacityValues == {-1, 0} \cup (1 .. MaxCapacity)

Indices == 0 .. (ArrayLen - 1)
ArrayValues == 0 .. MaxValue
Arrays == [1 .. ArrayLen -> ArrayValues]
\* keys of the cache are the tuples (L, R) of an in-range query
RangeKeys == {k \in Indices \X Indices : k[1] <= k[2]}
\* keys and values a caller hands to get/put/invalidate directly
CacheKeys == {<<0, R>> : R \in 0 .. MaxKey}
PutValues == 0 .. MaxValue

NoKey == <<>>

\* a reference to no SplayNode (Python's None in left/right/root)
NULL == 0
TreeKeys == {2 * i : i \in 1 .. MaxTreeKey}
\* search is also handed the keys below, between and above the inserted ones
SearchKeys == 1 .. (2 * MaxTreeKey + 1)
TreeValues == {10, 20}
FibArgs == 0 .. MaxFib

VARIABLES
    capacity,          \* LRUCache.capacity
    cache,             \* LRUCache.cache: OrderedDict as a sequence of entries, oldest first
    array_with_cache,  \* main(): array_with_cache
    array_no_cache,    \* main(): array_no_cache
    ret,               \* value returned by the last call (cached variant)
    ret_no_cache,      \* value returned by the last call (uncached variant)
    op,                \* the last call and its arguments
    recency,           \* history: the cached keys, least recently accessed first
    accessed,          \* history: key accessed (get hit, put) by the last call, or NoKey
    prevAccessed,      \* history: key accessed by the call before the last one, or NoKey
    evicted,           \* history: key evicted by the last call, or NoKey
    wasLRU,            \* history: the key the last call accessed was the least recent one
    prevWasLRU,        \* history: wasLRU of the call before the last one
    raised,            \* the exception the last call ended with, or "none"
    predicate_calls,   \* history: the keys condition_func was called on by the last call
    nodes,             \* the SplayNode objects, in order of creation: node i is nodes[i]
    root,              \* SplayTree.root: a node or NULL
    stored             \* history: the pairs (key, value) of the latest insert(key, value)
                       \* call on each key made directly on the tree

cacheVars == <<capacity, cache, array_with_cache, array_no_cache, ret_no_cache,
               recency, accessed, prevAccessed, evicted, wasLRU, prevWasLRU,
               raised, predicate_calls>>
treeVars == <<nodes, root, stored>>
vars == <<capacity, cache, array_with_cache, array_no_cache, ret, ret_no_cache,
          op, recency, accessed, prevAccessed, evicted, wasLRU, prevWasLRU,
          raised, predicate_calls, nodes, root, stored>>

\* --------------------------------------------------------------- sequences
RECURSIVE SumSeq(_)
SumSeq(s) == IF s = <<>> THEN 0 ELSE Head(s) + SumSeq(Tail(s))

Min2(a, b) == IF a < b THEN a ELSE b
Max2(a, b) == IF a > b THEN a ELSE b

\* Python slice a[lo:hi] of a list (0-based, hi exclusive): negative bounds
\* count from the end, both bounds are clamped to [0, len(a)].
SliceBound(n, i) == IF i < 0 THEN Max2(n + i, 0) ELSE Min2(i, n)
Slice(a, lo, hi) ==
    LET l == SliceBound(Len(a), lo)
        h == SliceBound(Len(a), hi)
    IN  IF l >= h THEN <<>> ELSE SubSeq(a, l + 1, h)

\* --------------------------------------------------------------- OrderedDict
KeysOf(c) == {c[i].key : i \in 1 .. Len(c)}
Contains(c, key) == key \in KeysOf(c)
IndexOf(c, key) == CHOOSE i \in 1 .. Len(c) : c[i].key = key
\* OrderedDict.__getitem__
GetItem(c, key) == c[IndexOf(c, key)].value
\* OrderedDict.__setitem__: overwrite keeps the position, a new key goes last
SetItem(c, key, value) ==
    IF Contains(c, key)
    THEN [c EXCEPT ![IndexOf(c, key)].value = value]
    ELSE Append(c, [key |-> key, value |-> value])
RemoveAt(c, i) == SubSeq(c, 1, i - 1) \o SubSeq(c, i + 1, Len(c))
\* OrderedDict.__delitem__
DelItem(c, key) == RemoveAt(c, IndexOf(c, key))
\* OrderedDict.move_to_end(key)
move_to_end(c, key) ==
    LET i == IndexOf(c, key) IN Append(RemoveAt(c, i), c[i])
\* OrderedDict.popitem(last=False)
\* (popitem_last: the default popitem(), which removes the newest entry)
popitem_last(c) == SubSeq(c, 1, Len(c) - 1)
popitem_first(c) == Tail(c)

\* ------------------------------------------------------------------ LRUCache
\* LRUCache.get: the returned value and the cache afterwards
\* (get_cache_no_refresh: a get without move_to_end;
\*  get_cache_setdefault: a get that stores a placeholder on a miss)
get_ret(c, key) == IF ~Contains(c, key) THEN None ELSE Some(GetItem(c, key))
get_cache_no_refresh(c, key) == c
get_cache_setdefault(c, key) ==
    IF ~Contains(c, key) THEN Append(c, [key |-> key, value |-> 0])
    ELSE move_to_end(c, key)
get_cache(c, key) == IF ~Contains(c, key) THEN c ELSE move_to_end(c, key)

\* LRUCache.put up to the capacity test
put_stored(c, key, value) == move_to_end(SetItem(c, key, value), key)
\* (put_overflows_before_store: the cache tested for being full before the
\* entry is stored, whether or not the key is already there)
put_overflows_before_store(c, cap, key, value) == Len(c) >= cap
put_overflows(c, cap, key, value) == Len(put_stored(c, key, value)) > cap
\* LRUCache.put: the cache afterwards
put(c, cap, key, value) ==
    IF put_overflows(c, cap, key, value)
    THEN popitem_first(put_stored(c, key, value))
    ELSE put_stored(c, key, value)

\* LRUCache.invalidate(condition_func)
\* for k in keys_to_remove: del self.cache[k]
\* (DelFirst: a loop that stops after its first deletion)
DelFirst(c, ks) == IF ks = <<>> THEN c ELSE DelItem(c, Head(ks))
RECURSIVE DelAll(_, _)
DelAll(c, ks) ==
    IF ks = <<>> THEN c ELSE DelAll(DelItem(c, Head(ks)), Tail(ks))
\* (keys_to_remove_negated: the comprehension with its test inverted)
keys_to_remove_negated(c, condition_func) ==
    LET F[i \in 0 .. Len(c)] ==
            IF i = 0 THEN <<>>
            ELSE IF ~condition_func[c[i].key]
                 THEN Append(F[i - 1], c[i].key) ELSE F[i - 1]
    IN  F[Len(c)]
\* [k for k in self.cache.keys() if condition_func(k)]
\* condition_func is given by its graph: a function from keys to BOOLEAN
\* defined at least on the keys of the cache.
keys_to_remove(c, condition_func) ==
    LET F[i \in 0 .. Len(c)] ==
            IF i = 0 THEN <<>>
            ELSE IF condition_func[c[i].key]
                 THEN Append(F[i - 1], c[i].key) ELSE F[i - 1]
    IN  F[Len(c)]
invalidate(c, condition_func) == DelAll(c, keys_to_remove(c, condition_func))

\* A condition_func that raises: raising is the set of keys it raises on.
\* The list comprehension calls it on the keys in order and stops at the first
\* key it raises on; the exception leaves invalidate before its del loop.
first_raising(c, raising) ==
    IF \E i \in 1 .. Len(c) : c[i].key \in raising
    THEN CHOOSE i \in 1 .. Len(c) :
             /\ c[i].key \in raising
             /\ \A j \in 1 .. (i - 1) : c[j].key \notin raising
    ELSE 0
comprehension_raises(c, raising) == first_raising(c, raising) # 0
\* the keys condition_func is called on, in order of the calls
condition_calls(c, raising) ==
    LET n == IF comprehension_raises(c, raising) THEN first_raising(c, raising)
             ELSE Len(c)
    IN  [i \in 1 .. n |-> c[i].key]
\* the cache an invalidate leaves whose condition_func raised
\* (invalidate_on_raise_partial: each key deleted as soon as it is tested, so
\* the entries tested before the exception are already gone)
invalidate_on_raise_partial(c, condition_func, raising) ==
    invalidate(SubSeq(c, 1, first_raising(c, raising) - 1), condition_func)
        \o SubSeq(c, first_raising(c, raising), Len(c))
invalidate_on_raise(c, condition_func, raising) == c
invalidate_raising(c, condition_func, raising) ==
    IF comprehension_raises(c, raising)
    THEN invalidate_on_raise(c, condition_func, raising)
    ELSE invalidate(c, condition_func)

\* -------------------------------------------------------- range-sum services
range_sum_no_cache(array, L, R) == SumSeq(Slice(array, L, R + 1))
\* array[index] = value: an index in -len..-1 counts from the end, any other
\* index outside 0..len-1 raises IndexError and leaves the list as it was
index_raises(array, index) == index >= Len(array) \/ index < 0 - Len(array)
list_position(array, index) ==
    IF index < 0 THEN Len(array) + index + 1 ELSE index + 1
update_no_cache(array, index, value) ==
    IF index_raises(array, index) THEN array
    ELSE [array EXCEPT ![list_position(array, index)] = value]

\* range_sum_with_cache: returned value and cache afterwards
range_sum_with_cache_ret(array, L, R, c, cap) ==
    LET cached_value == get_ret(c, <<L, R>>)
    IN  IF cached_value # None THEN cached_value[1]
        ELSE SumSeq(Slice(array, L, R + 1))
range_sum_with_cache_cache(array, L, R, c, cap) ==
    LET cached_value == get_ret(c, <<L, R>>)
        c1 == get_cache(c, <<L, R>>)
    IN  IF cached_value # None THEN c1
        ELSE put(c1, cap, <<L, R>>, SumSeq(Slice(array, L, R + 1)))

\* update_with_cache: the closure condition(key) and the cache afterwards
\* (condition_strict: the test written L < index <= R)
condition_strict(index, key) == key[1] < index /\ index <= key[2]
condition(index, key) == key[1] <= index /\ index <= key[2]
update_with_cache_cache(index, c) ==
    invalidate(c, [key \in KeysOf(c) |-> condition(index, key)])
\* update_with_cache: array[index] = value comes first, so an IndexError
\* leaves the function before invalidate is called
\* (update_with_cache_no_invalidate: the array written, the cache left alone)
update_with_cache_no_invalidate(array, index, c) == c
update_with_cache(array, index, c) ==
    IF index_raises(array, index) THEN c ELSE update_with_cache_cache(index, c)

\* ----------------------------------------------------------------- SplayTree
\* A heap h is the sequence of SplayNode objects; a reference is an index
\* into it or NULL. Every method below returns the heap it leaves behind
\* together with the reference it returns.
SplayNode(key, value) == [key |-> key, value |-> value, left |-> NULL, right |-> NULL]

\* SplayTree._right_rotate(x)
\* (_right_rotate_wrong_child: x.left = y.left written for x.left = y.right)
_right_rotate_wrong_child(h, x) ==
    LET y == h[x].left
        h1 == [h EXCEPT ![x].left = h[y].left]
        h2 == [h1 EXCEPT ![y].right = x]
    IN  [h |-> h2, root |-> y]
_right_rotate(h, x) ==
    LET y == h[x].left
        h1 == [h EXCEPT ![x].left = h[y].right]
        h2 == [h1 EXCEPT ![y].right = x]
    IN  [h |-> h2, root |-> y]

\* SplayTree._left_rotate(x)
\* (_left_rotate_keep_child: x.right = y.left left out, so x keeps y as its
\* right child while it becomes y's left child)
_left_rotate_keep_child(h, x) ==
    LET y == h[x].right
        h2 == [h EXCEPT ![y].left = x]
    IN  [h |-> h2, root |-> y]
_left_rotate(h, x) ==
    LET y == h[x].right
        h1 == [h EXCEPT ![x].right = h[y].left]
        h2 == [h1 EXCEPT ![y].left = x]
    IN  [h |-> h2, root |-> y]

\* the final statement of each branch of _splay
\* (splay_left_return_no_rotate: return root, without the closing rotation)
splay_left_return_no_rotate(h, r) == [h |-> h, root |-> r]
splay_left_return(h, r) ==
    IF h[r].left = NULL THEN [h |-> h, root |-> r] ELSE _right_rotate(h, r)
\* (splay_right_return_no_rotate: return root, without the closing rotation)
splay_right_return_no_rotate(h, r) == [h |-> h, root |-> r]
splay_right_return(h, r) ==
    IF h[r].right = NULL THEN [h |-> h, root |-> r] ELSE _left_rotate(h, r)

\* SplayTree._splay(root, key)
RECURSIVE _splay(_, _, _)
_splay(h, r, key) ==
    IF r = NULL \/ h[r].key = key THEN [h |-> h, root |-> r]
    ELSE IF key < h[r].key THEN
        IF h[r].left = NULL THEN [h |-> h, root |-> r]
        ELSE LET l == h[r].left IN
            IF key < h[l].key THEN
                \* Zig-Zig (Left Left)
                LET s == _splay(h, h[l].left, key)
                    h1 == [s.h EXCEPT ![l].left = s.root]
                    t == _right_rotate(h1, r)
                IN  splay_left_return(t.h, t.root)
            ELSE IF key > h[l].key THEN
                \* Zig-Zag (Left Right)
                LET s == _splay(h, h[l].right, key)
                    h1 == [s.h EXCEPT ![l].right = s.root]
                    h2 == IF h1[l].right # NULL
                          THEN LET t == _left_rotate(h1, l)
                               IN  [t.h EXCEPT ![r].left = t.root]
                          ELSE h1
                IN  splay_left_return(h2, r)
            ELSE splay_left_return(h, r)
    ELSE
        IF h[r].right = NULL THEN [h |-> h, root |-> r]
        ELSE LET l == h[r].right IN
            IF key > h[l].key THEN
                \* Zig-Zig (Right Right)
                LET s == _splay(h, h[l].right, key)
                    h1 == [s.h EXCEPT ![l].right = s.root]
                    t == _left_rotate(h1, r)
                IN  splay_right_return(t.h, t.root)
            ELSE IF key < h[l].key THEN
                \* Zig-Zag (Right Left)
                LET s == _splay(h, h[l].left, key)
                    h1 == [s.h EXCEPT ![l].left = s.root]
                    h2 == IF h1[l].left # NULL
                          THEN LET t == _right_rotate(h1, l)
                               IN  [t.h EXCEPT ![r].right = t.root]
                          ELSE h1
                IN  splay_right_return(h2, r)
            ELSE splay_right_return(h, r)

\* SplayTree.search(key): heap, root and returned value
\* (search_any_root: the root's value returned without comparing its key)
search_any_root(h, r, key) ==
    LET s == _splay(h, r, key)
    IN  [h |-> s.h, root |-> s.root,
         ret |-> IF s.root # NULL THEN Some(s.h[s.root].value) ELSE None]
search(h, r, key) ==
    LET s == _splay(h, r, key)
    IN  [h |-> s.h, root |-> s.root,
         ret |-> IF s.root # NULL /\ s.h[s.root].key = key
                 THEN Some(s.h[s.root].value) ELSE None]

\* SplayTree.insert: the split of the splayed tree below a new node
\* (insert_split_keep_left: the old root keeps its left subtree when it
\* becomes the right child of the new node)
insert_split_keep_left(h, r, key, value) ==
    LET new_node == Len(h) + 1
        h1 == Append(h, SplayNode(key, value))
    IN  IF key < h[r].key
        THEN [h |-> [h1 EXCEPT ![new_node].right = r],
              root |-> new_node]
        ELSE [h |-> [h1 EXCEPT ![new_node].left = r,
                               ![new_node].right = h[r].right,
                               ![r].right = NULL],
              root |-> new_node]
\* (insert_split_drop_right: new_node.right = self.root.right left out, so the
\* keys above the new key leave the tree)
insert_split_drop_right(h, r, key, value) ==
    LET new_node == Len(h) + 1
        h1 == Append(h, SplayNode(key, value))
    IN  IF key < h[r].key
        THEN [h |-> [h1 EXCEPT ![new_node].right = r,
                               ![new_node].left = h[r].left,
                               ![r].left = NULL],
              root |-> new_node]
        ELSE [h |-> [h1 EXCEPT ![new_node].left = r,
                               ![r].right = NULL],
              root |-> new_node]
insert_split(h, r, key, value) ==
    LET new_node == Len(h) + 1
        h1 == Append(h, SplayNode(key, value))
    IN  IF key < h[r].key
        THEN [h |-> [h1 EXCEPT ![new_node].right = r,
                               ![new_node].left = h[r].left,
                               ![r].left = NULL],
              root |-> new_node]
        ELSE [h |-> [h1 EXCEPT ![new_node].left = r,
                               ![new_node].right = h[r].right,
                               ![r].right = NULL],
              root |-> new_node]

\* SplayTree.insert(key, value): heap and root
\* (insert_always_new: the test root.key == key left out)
insert_always_new(h, r, key, value) ==
    IF r = NULL THEN [h |-> Append(h, SplayNode(key, value)), root |-> Len(h) + 1]
    ELSE insert_split(_splay(h, r, key).h, _splay(h, r, key).root, key, value)
insert(h, r, key, value) ==
    IF r = NULL THEN [h |-> Append(h, SplayNode(key, value)), root |-> Len(h) + 1]
    ELSE LET s == _splay(h, r, key) IN
         IF s.h[s.root].key = key
         THEN [h |-> [s.h EXCEPT ![s.root].value = value], root |-> s.root]
         ELSE insert_split(s.h, s.root, key, value)

\* ------------------------------------------------------------------ Fibonacci
\* fibonacci_lru(n): the loop of the function body
RECURSIVE fib_loop(_, _, _, _)
fib_loop(a, b, i, n) == IF i > n THEN b ELSE fib_loop(b, a + b, i + 1, n)
fibonacci_lru(n) == IF n < 2 THEN n ELSE fib_loop(0, 1, 2, n)

\* fibonacci_splay(n, tree): heap, root and returned value.
\* fib_store is the tail of the function (tree.insert(n, result); return result),
\* fib_compute what follows a miss of tree.search(n).
RECURSIVE fibonacci_splay(_, _, _)
fib_store(t, n, result) ==
    [h |-> insert(t.h, t.root, n, result).h,
     root |-> insert(t.h, t.root, n, result).root,
     ret |-> result]
fib_second(f1, n) == fibonacci_splay(f1.h, f1.root, n - 2)
fib_sum(f1, f2, n) == fib_store(f2, n, f1.ret + f2.ret)
fib_first(f1, n) == fib_sum(f1, fib_second(f1, n), n)
fib_compute(s, n) ==
    IF n < 2 THEN fib_store(s, n, n)
    ELSE fib_first(fibonacci_splay(s.h, s.root, n - 1), n)
fib_searched(s, n) ==
    IF s.ret # None THEN [h |-> s.h, root |-> s.root, ret |-> s.ret[1]]
    ELSE fib_compute(s, n)
fibonacci_splay(h, r, n) == fib_searched(search(h, r, n), n)

\* -------------------------------------------------------------------- states
Init ==
    /\ capacity \in CapacityValues
    /\ cache = <<>>
    /\ array_with_cache \in Arrays
    /\ array_no_cache = array_with_cache
    /\ ret = None
    /\ ret_no_cache = None
    /\ op = [name |-> "init", key |-> NoKey]
    /\ recency = <<>>
    /\ accessed = NoKey
    /\ prevAccessed = NoKey
    /\ evicted = NoKey
    /\ wasLRU = FALSE
    /\ prevWasLRU = FALSE
    /\ raised = "none"
    /\ predicate_calls = <<>>
    /\ nodes = <<>>
    /\ root = NULL
    /\ stored = {}

\* the array the direct calls on the cache leave alone
InitLRU == Init /\ array_with_cache = [i \in 1 .. ArrayLen |-> 0]

\* History of one call. touched is the key the call accessed (get hit, put) or
\* NoKey; victim the key it evicted or NoKey. recency is the reference order
\* of accesses: an accessed key becomes the most recent one, keys that left
\* the cache are dropped.
Without(s, key) == SelectSeq(s, LAMBDA x : x # key)
Touch(s, touched) ==
    IF touched = NoKey THEN s ELSE Append(Without(s, touched), touched)
Track(touched, victim) ==
    /\ recency' = SelectSeq(Touch(recency, touched), LAMBDA x : x \in KeysOf(cache'))
    /\ prevAccessed' = accessed
    /\ accessed' = touched
    /\ evicted' = victim
    /\ prevWasLRU' = wasLRU
    /\ wasLRU' = (touched # NoKey /\ recency # <<>> /\ Head(recency) = touched)

\* the key a put removed from the cache by popitem, or NoKey
put_victim(c, cap, key, value) ==
    LET gone == KeysOf(put_stored(c, key, value)) \ KeysOf(put(c, cap, key, value))
    IN  IF gone = {} THEN NoKey ELSE CHOOSE k \in gone : TRUE

\* ---- direct calls on the LRUCache
Get(key) ==
    /\ ret' = get_ret(cache, key)
    /\ cache' = get_cache(cache, key)
    /\ op' = [name |-> "get", key |-> key]
    /\ Track(IF Contains(cache, key) THEN key ELSE NoKey, NoKey)
    /\ raised' = "none"
    /\ predicate_calls' = <<>>
    /\ UNCHANGED <<capacity, array_with_cache, array_no_cache, ret_no_cache, treeVars>>

Put(key, value) ==
    /\ ret' = None
    /\ cache' = put(cache, capacity, key, value)
    /\ op' = [name |-> "put", key |-> key, value |-> value]
    /\ Track(key, put_victim(cache, capacity, key, value))
    /\ raised' = "none"
    /\ predicate_calls' = <<>>
    /\ UNCHANGED <<capacity, array_with_cache, array_no_cache, ret_no_cache, treeVars>>

\* invalidate(condition_func): condition_func is true on the keys of cond and
\* raises on the keys of raising
Invalidate(cond, raising) ==
    /\ ret' = None
    /\ cache' = invalidate_raising(cache, [key \in CacheKeys |-> key \in cond], raising)
    /\ op' = [name |-> "invalidate", key |-> NoKey, cond |-> cond]
    /\ Track(NoKey, NoKey)
    /\ raised' = IF comprehension_raises(cache, raising) THEN "Exception" ELSE "none"
    /\ predicate_calls' = condition_calls(cache, raising)
    /\ UNCHANGED <<capacity, array_with_cache, array_no_cache, ret_no_cache, treeVars>>

\* the condition_funcs handed to invalidate: any set of keys it is true on and
\* never raising, or true on every key but raising on one
InvalidateArgs ==
    {<<cond, {}>> : cond \in SUBSET CacheKeys}
        \cup {<<CacheKeys, {key}>> : key \in CacheKeys}

NextLRU ==
    \/ \E key \in CacheKeys : Get(key)
    \/ \E key \in CacheKeys, value \in PutValues : Put(key, value)
    \/ \E a \in InvalidateArgs : Invalidate(a[1], a[2])

SpecLRU == InitLRU /\ [][NextLRU]_vars

\* ---- the services, driving the cached and the uncached copy alike
RangeSum(L, R) ==
    /\ ret' = Some(range_sum_with_cache_ret(array_with_cache, L, R, cache, capacity))
    /\ cache' = range_sum_with_cache_cache(array_with_cache, L, R, cache, capacity)
    /\ ret_no_cache' = Some(range_sum_no_cache(array_no_cache, L, R))
    /\ op' = [name |-> "range_sum", key |-> <<L, R>>]
    /\ Track(<<L, R>>,
             IF Contains(cache, <<L, R>>) THEN NoKey
             ELSE put_victim(cache, capacity, <<L, R>>,
                             range_sum_no_cache(array_with_cache, L, R)))
    /\ raised' = "none"
    /\ predicate_calls' = <<>>
    /\ UNCHANGED <<capacity, array_with_cache, array_no_cache, treeVars>>

Update(index, value) ==
    /\ array_with_cache' = update_no_cache(array_with_cache, index, value)
    /\ cache' = update_with_cache(array_with_cache, index, cache)
    /\ array_no_cache' = update_no_cache(array_no_cache, index, value)
    /\ ret' = None
    /\ ret_no_cache' = None
    /\ op' = [name |-> "update", key |-> <<index, index>>]
    /\ Track(NoKey, NoKey)
    /\ raised' = IF index_raises(array_with_cache, index) THEN "IndexError" ELSE "none"
    /\ predicate_calls' = IF index_raises(array_with_cache, index) THEN <<>>
                          ELSE condition_calls(cache, {})
    /\ UNCHANGED <<capacity, treeVars>>

NextRange ==
    \/ \E k \in RangeKeys : RangeSum(k[1], k[2])
    \/ \E index \in Indices, value \in ArrayValues : Update(index, value)

SpecRange == Init /\ [][NextRange]_vars

\* ---- the services called with any L <= R and any index, in range or not
AnyIndices == -1 .. ArrayLen
AnyRangeKeys == {k \in AnyIndices \X AnyIndices : k[1] <= k[2]}
NextRangeAny ==
    \/ \E k \in AnyRangeKeys : RangeSum(k[1], k[2])
    \/ \E index \in AnyIndices, value \in ArrayValues : Update(index, value)

SpecRangeAny == Init /\ [][NextRangeAny]_vars

\* ---- calls on the SplayTree
InitTree == InitLRU /\ capacity = MaxCapacity

\* history: the key -> value pairs of the insert calls so far, as a set of pairs
StoredAfterInsert(m, key, value) ==
    {p \in m : p[1] # key} \cup {<<key, value>>}

Search(key) ==
    /\ LET s == search(nodes, root, key)
       IN  nodes' = s.h /\ root' = s.root /\ ret' = s.ret
    /\ op' = [name |-> "search", key |-> key]
    /\ UNCHANGED <<cacheVars, stored>>

Insert(key, value) ==
    /\ LET s == insert(nodes, root, key, value)
       IN  nodes' = s.h /\ root' = s.root
    /\ ret' = None
    /\ op' = [name |-> "insert", key |-> key, value |-> value]
    /\ stored' = StoredAfterInsert(stored, key, value)
    /\ UNCHANGED cacheVars

NextTree ==
    \/ \E key \in SearchKeys : Search(key)
    \/ \E key \in TreeKeys, value \in TreeValues : Insert(key, value)

SpecTree == InitTree /\ [][NextTree]_vars

\* ---- calls of fibonacci_splay on one tree, reset_splay_tree between series
Fib(n) ==
    /\ LET f == fibonacci_splay(nodes, root, n)
       IN  nodes' = f.h /\ root' = f.root /\ ret' = Some(f.ret)
    /\ op' = [name |-> "fibonacci_splay", key |-> n]
    /\ UNCHANGED <<cacheVars, stored>>

ResetSplayTree ==
    /\ nodes' = <<>>
    /\ root' = NULL
    /\ ret' = None
    /\ op' = [name |-> "reset_splay_tree", key |-> NoKey]
    /\ UNCHANGED <<cacheVars, stored>>

NextFib ==
    \/ \E n \in FibArgs : Fib(n)
    \/ ResetSplayTree

SpecFib == InitTree /\ [][NextFib]_vars

\* ===================================================================== claims
\* ---- the LRU cache

\* C1: after every call (put, get, invalidate) returns, the cache holds at
\* most `capacity` entries.
C1_CapacityInvariant == op.name # "init" => Len(cache) <= capacity

\* What the code does keep: the entry count never exceeds max(capacity, 0).
EntriesWithinNonNegativeCapacity == Len(cache) <= Max2(capacity, 0)

\* The example of the specification: array [1,2,3,4,5], rangeSum(1,3) = 9,
\* update(2,10), rangeSum(1,3) = 16, for the capacity of the current cache.
ExampleScenario ==
    LET a0 == <<1, 2, 3, 4, 5>>
        r1 == range_sum_with_cache_ret(a0, 1, 3, <<>>, capacity)
        c1 == range_sum_with_cache_cache(a0, 1, 3, <<>>, capacity)
        a1 == update_no_cache(a0, 2, 10)
        c2 == update_with_cache_cache(2, c1)
        r2 == range_sum_with_cache_ret(a1, 1, 3, c2, capacity)
    IN  /\ r1 = 9 /\ r1 = range_sum_no_cache(a0, 1, 3)
        /\ a1 = <<1, 2, 10, 4, 5>>
        /\ ~Contains(c2, <<1, 3>>)
        /\ r2 = 16 /\ r2 = range_sum_no_cache(a1, 1, 3)

\* C2: cache transparency. Every range query returns the same value from the
\* cached service as from the uncached one driven by the same calls, for every
\* capacity; the two arrays stay equal; the example of the specification holds.
C2_CacheTransparency ==
    /\ op.name = "range_sum" => ret = ret_no_cache
    /\ array_with_cache = array_no_cache
    /\ ExampleScenario

\* C2 witness: a range query answered from the cache (the call before it
\* accessed the same key) with a non-zero sum, the cache holding two entries.
C2_Witness ==
    /\ op.name = "range_sum"
    /\ prevAccessed = op.key
    /\ Contains(cache, op.key)
    /\ Len(cache) >= 2
    /\ ret = ret_no_cache
    /\ ret # Some(0)

\* puts of the keys ks, in order, each with value 0
RECURSIVE PutAll(_, _, _)
PutAll(c, cap, ks) ==
    IF ks = <<>> THEN c ELSE PutAll(put(c, cap, Head(ks), 0), cap, Tail(ks))
Injective(ks) == \A i, j \in DOMAIN ks : ks[i] = ks[j] => i = j
\* capacity C >= 1 and C+1 distinct keys put into an empty cache: the first C
\* puts evict nothing, the last one evicts k1, and k2..k(C+1) remain in order.
FillEvictsFirst(cap) ==
    cap >= 1 /\ cap + 1 <= Cardinality(CacheKeys) =>
        \A ks \in [1 .. cap + 1 -> CacheKeys] :
            Injective(ks) =>
                LET full == PutAll(<<>>, cap, SubSeq(ks, 1, cap))
                IN  /\ [i \in 1 .. Len(full) |-> full[i].key] = SubSeq(ks, 1, cap)
                    /\ put_victim(full, cap, ks[cap + 1], 0) = ks[1]
                    /\ LET after == put(full, cap, ks[cap + 1], 0)
                       IN  [i \in 1 .. Len(after) |-> after[i].key] = Tail(ks)

\* C3: LRU eviction order. Whenever a call evicts, the victim is the least
\* recently accessed of the keys held when the eviction happens (the head of
\* the reference order once the call's own access is counted); and, from the
\* empty cache, C+1 distinct keys put in order evict exactly the first.
C3_EvictsLeastRecentlyUsed ==
    [][ /\ evicted' # NoKey => evicted' = Head(Touch(recency, accessed'))
        /\ cache = <<>> => FillEvictsFirst(capacity) ]_vars

\* C3 witness: a put that evicted from a full cache of capacity >= 2, the
\* victim gone and the cache still full.
C3_Witness ==
    /\ op.name = "put"
    /\ capacity >= 2
    /\ evicted # NoKey
    /\ ~Contains(cache, evicted)
    /\ Len(cache) = capacity

\* C4 as stated: a key accessed by a call (get hit or put) is the victim
\* neither of an eviction by that call nor of an eviction by the call that
\* follows it. Stated for the capacities >= 1 the specification allows.
C4_Original ==
    capacity >= 1 /\ evicted # NoKey => evicted \notin {accessed, prevAccessed}

\* C4 amended: with capacity >= 2, a key accessed by a call is the victim
\* neither of an eviction by that call nor of one by the call that follows.
\* (With capacity 1 the next put of another key evicts it.)
C4_RecencyRefresh ==
    capacity >= 2 /\ evicted # NoKey => evicted \notin {accessed, prevAccessed}

\* C4 witness: an eviction right after an access of a key that was the least
\* recently used one before that access; the key is still cached.
C4_Witness ==
    /\ capacity >= 2
    /\ evicted # NoKey
    /\ prevWasLRU
    /\ prevAccessed # NoKey
    /\ prevAccessed # accessed
    /\ Contains(cache, prevAccessed)

Covers(key, index) == key[1] <= index /\ index <= key[2]

\* C5: invalidation completeness. Right after update_with_cache(array, i, v)
\* the cache holds no key (L, R) with L <= i <= R, and get of every such key
\* returns absent; the array holds v at i.
C5_InvalidationComplete ==
    op.name = "update" =>
        LET i == op.key[1] IN
        /\ \A k \in KeysOf(cache) : ~Covers(k, i)
        /\ \A k \in RangeKeys : Covers(k, i) => get_ret(cache, k) = None

\* C5 witness: an update right after a query whose key covers the updated
\* index (so the entry was cached and is gone), other entries remaining.
C5_Witness ==
    /\ op.name = "update"
    /\ capacity >= 2
    /\ prevAccessed # NoKey
    /\ Covers(prevAccessed, op.key[1])
    /\ ~Contains(cache, prevAccessed)
    /\ cache # <<>>

\* the key -> value mapping of an OrderedDict
Mapping(c) == {<<c[i].key, c[i].value>> : i \in 1 .. Len(c)}
KeyOrder(c) == [i \in 1 .. Len(c) |-> c[i].key]

\* C10: get on a miss returns absent and leaves mapping and recency order as
\* they were; get on a hit returns the stored value, leaves the mapping as it
\* was and moves only that key (the other keys keep their relative order).
C10_GetFrame ==
    [][ op'.name = "get" =>
          IF ~Contains(cache, op'.key)
          THEN /\ ret' = None
               /\ cache' = cache
          ELSE /\ ret' = Some(GetItem(cache, op'.key))
               /\ Mapping(cache') = Mapping(cache)
               /\ Without(KeyOrder(cache'), op'.key) = Without(KeyOrder(cache), op'.key)
      ]_vars

\* C10 witness: a get that missed on a cache holding two entries.
C10_Witness ==
    /\ op.name = "get"
    /\ ret = None
    /\ ~Contains(cache, op.key)
    /\ Len(cache) >= 2

\* ---- the splay tree

\* the nodes reachable from reference r along left/right (a fixpoint, so it
\* is defined on any heap)
Children(h, ns) ==
    {h[n].left : n \in ns} \cup {h[n].right : n \in ns}
RECURSIVE ReachFrom(_, _, _)
ReachFrom(h, ns, fuel) ==
    LET more == ns \cup (Children(h, ns) \ {NULL})
    IN  IF fuel = 0 \/ more = ns THEN ns ELSE ReachFrom(h, more, fuel - 1)
Reachable(h, r) == IF r = NULL THEN {} ELSE ReachFrom(h, {r}, Len(h))

\* in-order traversal of the subtree at r, to depth fuel
RECURSIVE InOrderTo(_, _, _)
InOrderTo(h, r, fuel) ==
    IF r = NULL \/ fuel = 0 THEN <<>>
    ELSE InOrderTo(h, h[r].left, fuel - 1) \o <<h[r].key>>
         \o InOrderTo(h, h[r].right, fuel - 1)
InOrder(h, r) == InOrderTo(h, r, Len(h))

StrictlyIncreasing(ks) == \A i \in 1 .. (Len(ks) - 1) : ks[i] < ks[i + 1]
StoredKeys(h, r) == {h[n].key : n \in Reachable(h, r)}
\* the values stored for key k in the tree at r
ValuesOf(h, r, k) == {h[n].value : n \in {m \in Reachable(h, r) : h[m].key = k}}

BSTOrdered(h, r) ==
    \A n \in Reachable(h, r) :
        /\ \A m \in Reachable(h, h[n].left) : h[m].key < h[n].key
        /\ \A m \in Reachable(h, h[n].right) : h[m].key > h[n].key

\* C6: BST ordering. After any sequence of insert and search calls from an
\* empty tree, every node's key is greater than every key of its left subtree
\* and less than every key of its right subtree, and the in-order traversal
\* lists every node once with strictly increasing keys.
C6_BSTOrdering ==
    /\ BSTOrdered(nodes, root)
    /\ StrictlyIncreasing(InOrder(nodes, root))
    /\ Len(InOrder(nodes, root)) = Len(nodes)

\* C6 witness: a search has restructured a tree of at least three nodes whose
\* root has two children.
C6_Witness ==
    /\ op.name = "search"
    /\ Len(nodes) >= 3
    /\ root # NULL
    /\ nodes[root].left # NULL
    /\ nodes[root].right # NULL

\* C7: splay-to-root on a hit. search(k) on a tree containing k returns the
\* value stored for k and leaves the node with key k as root.
C7_SplayToRootOnHit ==
    [][ op'.name = "search" /\ op'.key \in StoredKeys(nodes, root) =>
            /\ ret' # None
            /\ ValuesOf(nodes, root, op'.key) = {ret'[1]}
            /\ root' # NULL
            /\ nodes'[root'].key = op'.key
      ]_vars

\* C7 witness: a search that hit, in a tree of at least three nodes, and
\* brought up a node that is not the newest one.
C7_Witness ==
    /\ op.name = "search"
    /\ ret # None
    /\ Len(nodes) >= 3
    /\ root # Len(nodes)
    /\ nodes[root].key = op.key

\* the n-th Fibonacci number, by its defining recurrence
RECURSIVE Fibonacci(_)
Fibonacci(n) == IF n = 0 THEN 0 ELSE IF n = 1 THEN 1
                ELSE Fibonacci(n - 1) + Fibonacci(n - 2)

\* C8: memoization correctness. On every tree left by earlier
\* fibonacci_splay calls (the empty tree included), fibonacci_splay(n, tree)
\* returns the n-th Fibonacci number, which is also what fibonacci_lru(n)
\* returns.
C8_MemoizationCorrect ==
    op.name = "fibonacci_splay" =>
        /\ ret = Some(Fibonacci(op.key))
        /\ ret = Some(fibonacci_lru(op.key))

\* C8 witness: a call answered on a tree that earlier calls had filled beyond
\* its argument.
C8_Witness ==
    /\ op.name = "fibonacci_splay"
    /\ op.key >= 4
    /\ Len(nodes) > op.key + 1
    /\ ret = Some(Fibonacci(op.key))

\* C9: re-insertion. insert(k, v) on a tree containing k creates no node,
\* leaves the in-order key sequence as it was, stores v for k, and leaves the
\* tree that search(k) would have left (but for the value of k).
C9_ReinsertUpdates ==
    [][ op'.name = "insert" /\ op'.key \in StoredKeys(nodes, root) =>
            LET s == search(nodes, root, op'.key) IN
            /\ Len(nodes') = Len(nodes)
            /\ InOrder(nodes', root') = InOrder(nodes, root)
            /\ ValuesOf(nodes', root', op'.key) = {op'.value}
            /\ root' = s.root
            /\ nodes' = [s.h EXCEPT ![s.root].value = op'.value]
      ]_vars

\* C9 witness: an insert that left an older node as root (so the key was
\* already stored), in a tree of at least three nodes.
C9_Witness ==
    /\ op.name = "insert"
    /\ Len(nodes) >= 3
    /\ root # Len(nodes)
    /\ nodes[root].key = op.key
    /\ nodes[root].value = op.value

\* C11: an invalidate whose predicate does not raise removes exactly the
\* entries whose key satisfies the predicate; every other entry stays, with
\* its value and in the same relative recency order; and the predicate is
\* called exactly once for each entry present when the call started.
CalledOnce(calls, key) ==
    Cardinality({i \in 1 .. Len(calls) : calls[i] = key}) = 1
C11_InvalidateExact ==
    [][ (op'.name = "invalidate" /\ raised' = "none") =>
          /\ KeysOf(cache') = {key \in KeysOf(cache) : key \notin op'.cond}
          /\ Len(cache') = Cardinality(KeysOf(cache'))
          /\ \A key \in KeysOf(cache') : GetItem(cache', key) = GetItem(cache, key)
          /\ \A k1, k2 \in KeysOf(cache') :
                 (IndexOf(cache', k1) < IndexOf(cache', k2))
                     <=> (IndexOf(cache, k1) < IndexOf(cache, k2))
          /\ Len(predicate_calls') = Len(cache)
          /\ \A key \in KeysOf(cache) : CalledOnce(predicate_calls', key)
      ]_vars
\* an invalidate that found two entries, removed the older and kept the newer
C11_Witness ==
    /\ op.name = "invalidate"
    /\ raised = "none"
    /\ Len(predicate_calls) = 2
    /\ Len(cache) = 1
    /\ cache[1].key = predicate_calls[2]
    /\ predicate_calls[1] \in op.cond

\* C12: no cache with capacity <= 0 ever exists, so every get and every put is
\* performed on a cache whose capacity is at least 1.
C12_NoNonPositiveCapacity ==
    op.name \in {"get", "put"} => capacity >= 1

\* C13: a range query with L or R outside 0..N-1, and an update with index
\* outside 0..N-1, ends with an error: it returns no result, and leaves the
\* array and the cache as they were.
InRange(i) == i \in Indices
OutOfRangeCall ==
    \/ op.name = "range_sum" /\ ~(InRange(op.key[1]) /\ InRange(op.key[2]))
    \/ op.name = "update" /\ ~InRange(op.key[1])
C13_OutOfRangeFails ==
    OutOfRangeCall => (raised # "none" /\ ret = None)

\* the last node on the ordinary BST search path for k in the tree at r # NULL
RECURSIVE LastVisited(_, _, _)
LastVisited(h, r, k) ==
    LET next == IF k < h[r].key THEN h[r].left ELSE h[r].right
    IN  IF h[r].key = k \/ next = NULL THEN r ELSE LastVisited(h, next, k)
IsPredecessor(ks, a, k) == a \in ks /\ a < k /\ \A b \in ks : ~(a < b /\ b < k)
IsSuccessor(ks, a, k) == a \in ks /\ a > k /\ \A b \in ks : ~(k < b /\ b < a)

\* C14: a search for a key k that is not stored returns absent; on a non-empty
\* tree the new root is the last node of the BST search path for k in the tree
\* before the call, whose key is k's in-order predecessor or successor among
\* the stored keys; on an empty tree the tree stays empty.
C14_SplayOnMiss ==
    [][ (op'.name = "search" /\ op'.key \notin StoredKeys(nodes, root)) =>
          /\ ret' = None
          /\ IF root = NULL THEN root' = NULL /\ nodes' = <<>>
             ELSE /\ root' = LastVisited(nodes, root, op'.key)
                  /\ \/ IsPredecessor(StoredKeys(nodes, root), nodes'[root'].key, op'.key)
                     \/ IsSuccessor(StoredKeys(nodes, root), nodes'[root'].key, op'.key)
      ]_vars
\* a miss on a key between the stored keys of a three-node tree, which brought
\* the node created first to the root
C14_Witness ==
    /\ op.name = "search"
    /\ ret = None
    /\ Len(nodes) = 3
    /\ root = 1
    /\ \E n, m \in 1 .. 3 : nodes[n].key < op.key /\ op.key < nodes[m].key

\* C15: after insert(k, v) of a key that is not stored, the root is a new
\* node with key k and value v, its left subtree holds exactly the previously
\* stored keys below k and its right subtree exactly those above k, and the
\* tree has exactly one node more.
C15_InsertAbsent ==
    [][ (op'.name = "insert" /\ op'.key \notin StoredKeys(nodes, root)) =>
          /\ root' = Len(nodes) + 1
          /\ Len(nodes') = Len(nodes) + 1
          /\ nodes'[root'].key = op'.key
          /\ nodes'[root'].value = op'.value
          /\ StoredKeys(nodes', nodes'[root'].left)
                 = {a \in StoredKeys(nodes, root) : a < op'.key}
          /\ StoredKeys(nodes', nodes'[root'].right)
                 = {a \in StoredKeys(nodes, root) : a > op'.key}
          /\ Cardinality(Reachable(nodes', root'))
                 = Cardinality(Reachable(nodes, root)) + 1
      ]_vars
\* the third key, inserted between the two stored before it
C15_Witness ==
    /\ op.name = "insert"
    /\ Len(nodes) = 3
    /\ root = 3
    /\ nodes[3].key = op.key
    /\ nodes[3].left # NULL
    /\ nodes[3].right # NULL

\* C16: an invalidate whose predicate raises removes no entry at all: the
\* cache holds the same entries with the same values in the same recency
\* order as before the call.
C16_RaisingPredicateRemovesNothing ==
    [][ (op'.name = "invalidate" /\ raised' # "none") =>
          /\ cache' = cache
          /\ Mapping(cache') = Mapping(cache)
          /\ KeyOrder(cache') = KeyOrder(cache)
      ]_vars
\* the predicate was true on the older entry and raised on the newer one
C16_Witness ==
    /\ op.name = "invalidate"
    /\ raised = "Exception"
    /\ Len(predicate_calls) = 2
    /\ Len(cache) = 2
    /\ cache[1].key = predicate_calls[1]
    /\ cache[1].key \in op.cond

\* C17: put(k, v) with k present replaces the value, keeps exactly one entry
\* for k and every other entry, leaves the entry count unchanged and evicts
\* nothing, even when the cache is full; put of a new key into a full cache
\* evicts exactly one entry; with capacity 1 a put of another key leaves only
\* the new entry, and a put of the same key evicts nothing.
EntriesFor(c, key) == {i \in 1 .. Len(c) : c[i].key = key}
C17_PutOverwriteNeverEvicts ==
    [][ op'.name = "put" =>
          /\ Contains(cache, op'.key) =>
                /\ KeysOf(cache') = KeysOf(cache)
                /\ Len(cache') = Len(cache)
                /\ Cardinality(EntriesFor(cache', op'.key)) = 1
                /\ GetItem(cache', op'.key) = op'.value
                /\ \A key \in KeysOf(cache) \ {op'.key} :
                       GetItem(cache', key) = GetItem(cache, key)
          /\ (~Contains(cache, op'.key) /\ Len(cache) = capacity) =>
                /\ Len(cache') = Len(cache)
                /\ KeysOf(cache') \subseteq KeysOf(cache) \cup {op'.key}
                /\ Cardinality((KeysOf(cache) \cup {op'.key}) \ KeysOf(cache')) = 1
          /\ (capacity = 1 /\ Len(cache) = 1) =>
                cache' = <<[key |-> op'.key, value |-> op'.value]>>
      ]_vars
\* a full cache of two entries whose older entry was overwritten by the put:
\* it is now the newer one, with the new value, and the other entry is still there
C17_Witness ==
    /\ op.name = "put"
    /\ capacity = 2
    /\ Len(cache) = 2
    /\ evicted = NoKey
    /\ wasLRU
    /\ cache[2].key = op.key
    /\ cache[2].value = op.value

\* the (parent, side) pairs among the nodes of ns that hold n as a child
ParentEdges(h, ns, n) ==
    {e \in ns \X {"left", "right"} :
         IF e[2] = "left" THEN h[e[1]].left = n ELSE h[e[1]].right = n}
Descendants(h, n) == Reachable(h, h[n].left) \cup Reachable(h, h[n].right)

\* C18: the nodes reachable from the root form a tree: every node other than
\* the root is the child of exactly one node on exactly one side, the root is
\* no node's child, and no node is reachable from itself.
C18_StrictTree ==
    LET ns == Reachable(nodes, root)
    IN  \A n \in ns :
            /\ n # root => Cardinality(ParentEdges(nodes, ns, n)) = 1
            /\ n = root => ParentEdges(nodes, ns, n) = {}
            /\ n \notin Descendants(nodes, n)
\* a three-node tree whose root, left in place by rotations of a search, has
\* a child that has a child
C18_Witness ==
    /\ op.name = "search"
    /\ Len(nodes) = 3
    /\ Cardinality(Reachable(nodes, root)) = 3
    /\ root # 3
    /\ \E n \in 1 .. 3 : n # root /\ Descendants(nodes, n) # {}

\* array[L] + ... + array[R] for 0-based L <= R within the array
RECURSIVE SumRange(_, _, _)
SumRange(array, L, R) ==
    IF L > R THEN 0 ELSE array[L + 1] + SumRange(array, L + 1, R)

\* C19: after any sequence of in-range range_sum_with_cache and
\* update_with_cache calls, every entry (L, R) -> s of the cache has
\* s = array[L] + ... + array[R] for the array as it is now.
C19_CacheCoherence ==
    \A i \in 1 .. Len(cache) :
        cache[i].value = SumRange(array_with_cache, cache[i].key[1], cache[i].key[2])
\* an update that wrote a new value, tested two entries, removed the one
\* covering the index and left the other, whose range holds a nonzero element
C19_Witness ==
    /\ op.name = "update"
    /\ array_with_cache[op.key[1] + 1] # 0
    /\ Len(predicate_calls) = 2
    /\ Len(cache) = 1
    /\ cache[1].value # 0

\* the (key, value) pairs stored in the tree at r
Content(h, r) == {<<h[n].key, h[n].value>> : n \in Reachable(h, r)}
\* the value the pairs of m give to key k, or None
Lookup(m, k) ==
    IF \E p \in m : p[1] = k THEN Some((CHOOSE p \in m : p[1] = k)[2]) ELSE None

\* C20: the tree behaves as a map. search(k) returns the value of the most
\* recent insert(k, _), or absent if k was never inserted, and adds, removes
\* and changes no stored pair; insert(k, v) makes v the value stored for k and
\* changes the pair of no other key.
C20_MapBehaviour ==
    [][ /\ op'.name = "search" =>
              /\ ret' = Lookup(stored, op'.key)
              /\ Content(nodes', root') = Content(nodes, root)
        /\ op'.name = "insert" =>
              /\ Content(nodes', root')
                     = {p \in Content(nodes, root) : p[1] # op'.key}
                           \cup {<<op'.key, op'.value>>}
              /\ Content(nodes', root') = stored'
      ]_vars
\* a search on a tree of three pairs that found the pair of a node created
\* before the last one
C20_Witness ==
    /\ op.name = "search"
    /\ ret # None
    /\ Cardinality(stored) = 3
    /\ Content(nodes, root) = stored
    /\ root # Len(nodes)
    /\ ret = Lookup(stored, op.key)

====
